---- MODULE Spec2Model ----
(***************************************************************************)
(* Store-uptime report service (app.py): the get_times aggregator scan and *)
(* the trigger_report / generate_report / get_report job lifecycle.        *)
(*                                                                         *)
(* Time.  A timestamp is [day, sec, us]: a day number (day 0 is a Monday,  *)
(* so weekday = day % 7 as in date.weekday()), the second of the day and   *)
(* the microsecond.  Business-hours bounds are parsed with "%H:%M:%S" and  *)
(* carry no microseconds: they are seconds of the day.  Stored timestamps  *)
(* are naive; astimezone() reads them in the host's zone, taken to be UTC. *)
(* A zone is a fixed UTC offset (no daylight-saving transitions).          *)
(*                                                                         *)
(* Inputs.  Business-hours rows have start_time <= end_time.  The csv      *)
(* files of add_data_to_db are given as the rows parsed from them.  The    *)
(* reports directory exists and is writable.                               *)
(*                                                                         *)
(* Concurrency.  A database commit and a single file write are atomic.     *)
(* trigger_report, get_report and generate_report interleave at the points *)
(* between their actions below; add_data_to_db commits once, at its end.   *)
(***************************************************************************)
EXTENDS Integers, Sequences, FiniteSets, TLC

VARIABLES
    timezones,      \* Timezone table: sequence of [store_id, timezone]
    store_hours,    \* StoreHours table: sequence of [store_id, day_of_week, start_time, end_time]
    store_status,   \* StoreStatus table: sequence of [store_id, status, timestamp]
    reports,        \* Report table: report_id -> [status, time_taken]
    files,          \* ./reports/<id>.csv: report_id -> [rows, open]
    threads,        \* generate_report threads: report_id -> [pc, all_stores, i]
    requests,       \* request handler of each client: [op, report_id, report, fresh]
    response,       \* the last response sent to a client
    returned,       \* report ids that trigger_report has returned to a caller
    ingests,        \* number of add_data_to_db requests served
    gt              \* the frame of one get_times call (the aggregator scan)

vars == <<timezones, store_hours, store_status, reports, files, threads,
          requests, response, returned, ingests, gt>>

dbVars == <<timezones, store_hours, store_status>>
jobVars == <<reports, files, threads, requests, response, returned, ingests>>

-----------------------------------------------------------------------------
(* Bounds of the model *)

MaxPolls == 3
MaxHours == 2
MaxIngests == 1

-----------------------------------------------------------------------------
(* Time and zones *)

SecondsPerDay == 24 * 60 * 60

HMS(h, m, s) == (h * 60 + m) * 60 + s

None == "None"

\* pytz.timezone(name): the zones the model knows, as UTC offsets in seconds.
ValidZones == {"UTC", "America/Chicago", "Asia/Tokyo"}

UtcOffset(zone) ==
    CASE zone = "UTC" -> 0
      [] zone = "America/Chicago" -> 0 - HMS(6, 0, 0)
      [] zone = "Asia/Tokyo" -> HMS(9, 0, 0)

\* timestamp.astimezone(local_tz)
astimezone(ts, zone) ==
    LET total == ts.sec + UtcOffset(zone)
    IN  [day |-> ts.day + (total \div SecondsPerDay),
         sec |-> total % SecondsPerDay,
         us  |-> ts.us]

\* datetime.weekday(): Monday is 0
weekday(dt) == dt.day % 7

\* order of timestamps (the ORDER BY timestamp of the poll query)
TsLess(a, b) ==
    \/ a.day < b.day
    \/ a.day = b.day /\ a.sec < b.sec
    \/ a.day = b.day /\ a.sec = b.sec /\ a.us < b.us

-----------------------------------------------------------------------------
(* Helpers of app.py *)

HoursBefore(a, b) ==
    \/ a.start_time < b.start_time
    \/ a.start_time = b.start_time /\ a.end_time < b.end_time

\* get_store_time(store_id, day_of_week): the (start, end) pairs of that store
\* and weekday ordered by start then end; one synthetic pair when none exist.
get_store_time(store_id, day_of_week) ==
    LET store_data == SortSeq(
            SelectSeq(store_hours,
                      LAMBDA r : r.store_id = store_id /\ r.day_of_week = day_of_week),
            HoursBefore)
        times == [k \in 1..Len(store_data) |->
                     <<store_data[k].start_time, store_data[k].end_time>>]
    IN  IF times = <<>>
        THEN << <<HMS(0, 0, 0), HMS(23, 59, 59)>> >>
        ELSE times

\* get_local_tz(store_id): the zone of the first Timezone row of the store.
\* No row: .first() is None and reading .timezone raises AttributeError.
\* An unknown zone name: pytz.timezone raises UnknownTimeZoneError.
get_local_tz(store_id) ==
    LET rows == SelectSeq(timezones, LAMBDA r : r.store_id = store_id)
    IN  IF rows = <<>> THEN [raised |-> "AttributeError", tz |-> None]
        ELSE IF rows[1].timezone \notin ValidZones
             THEN [raised |-> "UnknownTimeZoneError", tz |-> None]
             ELSE [raised |-> None, tz |-> rows[1].timezone]

PollAfter(a, b) == TsLess(b.timestamp, a.timestamp)

\* the poll query of get_initial_vars: the store's polls, newest first
PollQuery(store_id) ==
    SortSeq(SelectSeq(store_status, LAMBDA r : r.store_id = store_id), PollAfter)

ZeroTimes ==
    [up_weekly |-> 0, down_weekly |-> 0, up_daily |-> 0, down_daily |-> 0,
     up_hourly |-> 0, down_hourly |-> 0]

NoFrame ==
    [pc |-> "idle", store_id |-> None, store_status |-> <<>>, local_tz |-> None,
     last_day_ts |-> None, i |-> 0, times |-> ZeroTimes,
     did_hit_last_hour |-> FALSE, did_hit_last_day |-> FALSE,
     did_hit_last_week |-> FALSE, raised |-> None]

EnterGetTimesLookupFirst(store_id) ==
    LET polls == PollQuery(store_id)
        ltz   == get_local_tz(store_id)
    IN  IF ltz.raised # None
        THEN [NoFrame EXCEPT !.pc = "raised", !.store_id = store_id,
                             !.store_status = polls, !.raised = ltz.raised]
        ELSE IF polls = <<>>
        THEN [NoFrame EXCEPT !.pc = "returned", !.store_id = store_id]
        ELSE [NoFrame EXCEPT !.pc = "loop", !.store_id = store_id,
                             !.store_status = polls, !.local_tz = ltz.tz,
                             !.last_day_ts = astimezone(polls[1].timestamp, ltz.tz),
                             !.i = 1]

\* get_times up to the loop: get_initial_vars and the initial flags.
\* pc: "loop" (scanning), "returned" (times is the result), "raised".
EnterGetTimes(store_id) ==
    LET polls == PollQuery(store_id)
        ltz   == get_local_tz(store_id)
    IN  IF polls = <<>>
        THEN [NoFrame EXCEPT !.pc = "returned", !.store_id = store_id]
        ELSE IF ltz.raised # None
        THEN [NoFrame EXCEPT !.pc = "raised", !.store_id = store_id,
                             !.store_status = polls, !.raised = ltz.raised]
        ELSE [NoFrame EXCEPT !.pc = "loop", !.store_id = store_id,
                             !.store_status = polls, !.local_tz = ltz.tz,
                             !.last_day_ts = astimezone(polls[1].timestamp, ltz.tz),
                             !.i = 1]

InHoursExclusive(status_dt, hours) ==
    status_dt.sec > hours[1] /\ status_dt.sec < hours[2]

\* the test of line 217, negated: the poll's time of day lies in [start, end]
InHours(status_dt, hours) ==
    ~ (\/ status_dt.sec < hours[1]
       \/ status_dt.sec > hours[2]
       \/ status_dt.sec = hours[2] /\ status_dt.us > 0)

CountMatchHourStaysOpen(f, status) ==
    LET t == f.times
        d == IF f.did_hit_last_day  THEN 0 ELSE 1
        w == IF f.did_hit_last_week THEN 0 ELSE 1
    IN  [f EXCEPT !.times =
            IF status = "active"
            THEN [t EXCEPT !.up_hourly = @ + 60, !.up_daily = @ + d, !.up_weekly = @ + w]
            ELSE [t EXCEPT !.down_hourly = @ + 60, !.down_daily = @ + d,
                           !.down_weekly = @ + w]]

CountMatchAlwaysUp(f, status) ==
    LET t == f.times
        h == IF f.did_hit_last_hour THEN 0 ELSE 60
        d == IF f.did_hit_last_day  THEN 0 ELSE 1
        w == IF f.did_hit_last_week THEN 0 ELSE 1
    IN  [f EXCEPT !.times = [t EXCEPT !.up_hourly = @ + h, !.up_daily = @ + d,
                                      !.up_weekly = @ + w],
                  !.did_hit_last_hour = TRUE]

\* lines 221-243: count one matching interval into the windows still open
CountMatch(f, status) ==
    LET t  == f.times
        h  == IF f.did_hit_last_hour THEN 0 ELSE 60
        d  == IF f.did_hit_last_day  THEN 0 ELSE 1
        w  == IF f.did_hit_last_week THEN 0 ELSE 1
        t2 == IF status = "active"
              THEN [t EXCEPT !.up_hourly = @ + h, !.up_daily = @ + d,
                             !.up_weekly = @ + w]
              ELSE [t EXCEPT !.down_hourly = @ + h, !.down_daily = @ + d,
                             !.down_weekly = @ + w]
    IN  [f EXCEPT !.times = t2, !.did_hit_last_hour = TRUE]

\* lines 213-243: the loop over the business hours of the poll's weekday
RECURSIVE ForHours(_, _, _, _, _)
ForHours(f, business_hours, k, status_dt, status) ==
    IF k > Len(business_hours) THEN f
    ELSE IF InHours(status_dt, business_hours[k])
         THEN ForHours(CountMatch(f, status), business_hours, k + 1, status_dt, status)
         ELSE ForHours(f, business_hours, k + 1, status_dt, status)

\* lines 194-205: the day and week boundary flags after seeing status_dt
DayFlag(f, status_dt) ==
    f.did_hit_last_day \/ status_dt.day # f.last_day_ts.day

WeekFlagNotSticky(f, status_dt) ==
    status_dt.day # f.last_day_ts.day /\ weekday(status_dt) = weekday(f.last_day_ts)

WeekFlagSameWeekdayOnly(f, status_dt) ==
    f.did_hit_last_week \/ weekday(status_dt) = weekday(f.last_day_ts)

WeekFlag(f, status_dt) ==
    \/ f.did_hit_last_week
    \/ status_dt.day # f.last_day_ts.day /\ weekday(status_dt) = weekday(f.last_day_ts)

LoopBodyCachedHours(f) ==
    LET status    == f.store_status[f.i]
        status_dt == astimezone(status.timestamp, f.local_tz)
        g == [f EXCEPT !.did_hit_last_day = DayFlag(f, status_dt),
                       !.did_hit_last_week = WeekFlag(f, status_dt)]
    IN  IF g.did_hit_last_week /\ g.did_hit_last_day /\ g.did_hit_last_hour
        THEN [g EXCEPT !.pc = "returned"]
        ELSE LET h == ForHours(g, get_store_time(f.store_id, weekday(f.last_day_ts)),
                               1, status_dt, status.status)
             IN  IF f.i = Len(f.store_status)
                 THEN [h EXCEPT !.pc = "returned"]
                 ELSE [h EXCEPT !.i = f.i + 1]

\* lines 188-243: one iteration of the scan over store_status[f.i]
LoopBody(f) ==
    LET status    == f.store_status[f.i]
        status_dt == astimezone(status.timestamp, f.local_tz)
        g == [f EXCEPT !.did_hit_last_day = DayFlag(f, status_dt),
                       !.did_hit_last_week = WeekFlag(f, status_dt)]
    IN  IF g.did_hit_last_week /\ g.did_hit_last_day /\ g.did_hit_last_hour
        THEN [g EXCEPT !.pc = "returned"]
        ELSE LET h == ForHours(g, get_store_time(f.store_id, weekday(status_dt)),
                               1, status_dt, status.status)
             IN  IF f.i = Len(f.store_status)
                 THEN [h EXCEPT !.pc = "returned"]
                 ELSE [h EXCEPT !.i = f.i + 1]

\* get_times(store_id), run to its end
RECURSIVE RunLoop(_)
RunLoop(f) == IF f.pc = "loop" THEN RunLoop(LoopBody(f)) ELSE f

get_times(store_id) == RunLoop(EnterGetTimes(store_id))

-----------------------------------------------------------------------------
(* The aggregator scan, one loop iteration per step *)

Store == "s1"

Ts(d, s, u) == [day |-> d, sec |-> s, us |-> u]

\* Poll instants (UTC).  Day 21 is a Monday, 14 the Monday a week earlier,
\* 13 the Sunday before that.  In Asia/Tokyo (UTC+9) the two instants of
\* 23:59:59 fall on Tuesday, day 22.
SampleInstants ==
    { Ts(21, HMS(23, 59, 59), 500000), Ts(21, HMS(23, 59, 59), 0),
      Ts(21, HMS(12, 0, 0), 0), Ts(21, HMS(11, 0, 0), 0), Ts(21, HMS(10, 0, 0), 0),
      Ts(14, HMS(11, 0, 0), 0), Ts(13, HMS(11, 0, 0), 0) }

SamplePolls ==
    { [store_id |-> Store, status |-> s, timestamp |-> t] :
        s \in {"active", "inactive"}, t \in SampleInstants }

\* Business-hours rows: Monday 09:00-17:00, Monday 10:00-12:00 (inside the
\* first), Sunday 11:00-11:00.
SampleHours ==
    { [store_id |-> Store, day_of_week |-> 0,
       start_time |-> HMS(9, 0, 0), end_time |-> HMS(17, 0, 0)],
      [store_id |-> Store, day_of_week |-> 0,
       start_time |-> HMS(10, 0, 0), end_time |-> HMS(12, 0, 0)],
      [store_id |-> Store, day_of_week |-> 6,
       start_time |-> HMS(11, 0, 0), end_time |-> HMS(11, 0, 0)] }

SampleZones == {"UTC", "Asia/Tokyo", "Mars/Phobos"}

SeqsUpTo(S, n) == UNION { [1..k -> S] : k \in 0..n }

Distinct(s) == \A j, k \in 1..Len(s) : j # k => s[j] # s[k]

NewestFirst(s) ==
    \A k \in 1..(Len(s) - 1) : ~ TsLess(s[k].timestamp, s[k + 1].timestamp)

\* no response has been sent yet
NoResponse ==
    [op |-> None, kind |-> None, error |-> None,
     report_id |-> None, rows |-> <<>>]

EmptyJob ==
    /\ reports = << >>
    /\ files = << >>
    /\ threads = << >>
    /\ requests = << >>
    /\ response = NoResponse
    /\ returned = {}
    /\ ingests = 0

InitAgg ==
    /\ timezones \in
         {<<>>} \cup { <<[store_id |-> Store, timezone |-> z]>> : z \in SampleZones }
    /\ store_hours \in { s \in SeqsUpTo(SampleHours, MaxHours) : Distinct(s) }
    /\ store_status \in { s \in SeqsUpTo(SamplePolls, MaxPolls) : NewestFirst(s) }
    /\ EmptyJob
    /\ gt = NoFrame

\* get_times(Store) is called: lines 160-184
GtEnter ==
    /\ gt.pc = "idle"
    /\ gt' = EnterGetTimes(Store)
    /\ UNCHANGED <<dbVars, jobVars>>

\* one iteration of the loop of line 187, including the break of line 210
\* and the return of line 246 after the last poll
GtIterate ==
    /\ gt.pc = "loop"
    /\ gt' = LoopBody(gt)
    /\ UNCHANGED <<dbVars, jobVars>>

NextAgg == GtEnter \/ GtIterate

SpecAgg == InitAgg /\ [][NextAgg]_vars

-----------------------------------------------------------------------------
(* The report job: add_data_to_db, trigger_report, generate_report, get_report *)

Clients == {"c1", "c2"}

\* the values random.choices can return, cut down to two
ReportIds == {"r1", "r2"}

LIMIT == 100

Hour(day, h0, h1) ==
    [store_id |-> "s1", day_of_week |-> day,
     start_time |-> HMS(h0, 0, 0), end_time |-> HMS(h1, 0, 0)]

StatusRow(store, d, h, st) ==
    [store_id |-> store, status |-> st, timestamp |-> Ts(d, HMS(h, 0, 0), 0)]

\* The three csv files of one add_data_to_db request, as parsed rows.
\* The first has stores s2 (empty zone column) and s1; the second has store
\* s3, whose zone name pytz does not know.
SampleData ==
    { [store_hours  |-> <<Hour(0, 9, 17)>>,
       store_status |-> <<StatusRow("s1", 21, 11, "inactive"),
                          StatusRow("s1", 21, 12, "active")>>,
       timezone     |-> <<[store_id |-> "s2", timezone |-> ""],
                          [store_id |-> "s1", timezone |-> "UTC"]>>],
      [store_hours  |-> <<>>,
       store_status |-> <<StatusRow("s3", 21, 12, "active")>>,
       timezone     |-> <<[store_id |-> "s3", timezone |-> "Mars/Phobos"]>>] }

\* line 332: timezone=line[1] or "America/Chicago"
TimezoneRow(line) ==
    [store_id |-> line.store_id,
     timezone |-> IF line.timezone = "" THEN "America/Chicago" ELSE line.timezone]

\* add_data_to_db: the rows of the three files are added and committed
AddData(data) ==
    /\ ingests < MaxIngests
    /\ ingests' = ingests + 1
    /\ store_hours' = store_hours \o data.store_hours
    /\ store_status' = store_status \o data.store_status
    /\ timezones' = timezones \o [k \in 1..Len(data.timezone) |->
                                     TimezoneRow(data.timezone[k])]
    /\ UNCHANGED <<reports, files, threads, requests, response, returned, gt>>

Idle == [op |-> "idle", report_id |-> None, report |-> None, fresh |-> FALSE]

TriggerNoCommit(c, id) ==
    /\ requests[c].op = "idle"
    /\ id \notin DOMAIN reports
    /\ threads' = threads @@ (id :> [pc |-> "begin", all_stores |-> <<>>, i |-> 0])
    /\ requests' = [requests EXCEPT ![c] = [Idle EXCEPT !.op = "trigger", !.report_id = id]]
    /\ UNCHANGED <<dbVars, reports, files, response, returned, ingests, gt>>

TriggerOverwrite(c, id) ==
    /\ requests[c].op = "idle"
    /\ id \in DOMAIN reports
    /\ reports' = [reports EXCEPT ![id] = [status |-> "Running", time_taken |-> None]]
    /\ threads' = [threads EXCEPT ![id] = [pc |-> "begin", all_stores |-> <<>>, i |-> 0]]
    /\ requests' = [requests EXCEPT ![c] = [Idle EXCEPT !.op = "trigger", !.report_id = id]]
    /\ UNCHANGED <<dbVars, files, response, returned, ingests, gt>>

\* trigger_report, lines 343-351: the Report row is committed (status
\* "Running" by default) and the thread is started.  Inserting a report_id
\* that exists violates the primary key: the commit raises and the request
\* ends with a server error before any thread is started.
TriggerInsert(c, id) ==
    /\ requests[c].op = "idle"
    /\ id \notin DOMAIN reports
    /\ reports' = reports @@ (id :> [status |-> "Running", time_taken |-> None])
    /\ threads' = threads @@ (id :> [pc |-> "begin", all_stores |-> <<>>, i |-> 0])
    /\ requests' = [requests EXCEPT ![c] = [Idle EXCEPT !.op = "trigger", !.report_id = id]]
    /\ UNCHANGED <<dbVars, files, response, returned, ingests, gt>>

TriggerCollide(c, id) ==
    /\ requests[c].op = "idle"
    /\ id \in DOMAIN reports
    /\ response' = [op |-> "trigger", kind |-> "error",
                    error |-> "IntegrityError", report_id |-> id, rows |-> <<>>]
    /\ UNCHANGED <<dbVars, reports, files, threads, requests, returned, ingests, gt>>

TriggerStart(c, id) == TriggerInsert(c, id) \/ TriggerCollide(c, id)

\* trigger_report, line 353: the report_id is returned
TriggerReturn(c) ==
    /\ requests[c].op = "trigger"
    /\ response' = [op |-> "trigger", kind |-> "report_id",
                    error |-> None, report_id |-> requests[c].report_id, rows |-> <<>>]
    /\ returned' = returned \cup {requests[c].report_id}
    /\ requests' = [requests EXCEPT ![c] = Idle]
    /\ UNCHANGED <<dbVars, reports, files, threads, ingests, gt>>

StoreRank(store_id) ==
    CASE store_id = "s1" -> 1 [] store_id = "s2" -> 2 [] store_id = "s3" -> 3

StoreIdBefore(a, b) == StoreRank(a.store_id) < StoreRank(b.store_id)

Min(a, b) == IF a < b THEN a ELSE b

\* line 255: Timezone.query.order_by("store_id").limit(100).all()
AllStores ==
    LET ordered == SortSeq(timezones, StoreIdBefore)
    IN  SubSeq(ordered, 1, Min(Len(ordered), LIMIT))

Header ==
    <<"store_id", "uptime_last_hour(in minutes)", "uptime_last_day(in hours)",
      "uptime_last_week(in hours)", "downtime_last_hour(in minutes)",
      "downtime_last_day(in hours)", "downtime_last_week(in hours)">>

\* lines 273-283: the row written for a store
Row(store_id, times) ==
    <<store_id, times.up_hourly, times.up_daily, times.up_weekly,
      times.down_hourly, times.down_daily, times.down_weekly>>

GenBeginSharedFile(id) ==
    /\ id \in DOMAIN threads
    /\ threads[id].pc = "begin"
    /\ threads' = [threads EXCEPT ![id] = [pc |-> "rows", all_stores |-> AllStores, i |-> 0]]
    /\ files' = [k \in DOMAIN files \cup {id} |-> [rows |-> <<Header>>, open |-> TRUE]]
    /\ UNCHANGED <<dbVars, reports, requests, response, returned, ingests, gt>>

\* generate_report, lines 252-269: the snapshot of the stores is taken, the
\* file is opened for writing (created or truncated) and the header written
GenBegin(id) ==
    /\ id \in DOMAIN threads
    /\ threads[id].pc = "begin"
    /\ threads' = [threads EXCEPT ![id] = [pc |-> "rows", all_stores |-> AllStores, i |-> 0]]
    /\ files' = [k \in DOMAIN files \cup {id} |->
                    IF k = id THEN [rows |-> <<Header>>, open |-> TRUE] ELSE files[k]]
    /\ UNCHANGED <<dbVars, reports, requests, response, returned, ingests, gt>>

GenRowSkipEmpty(id) ==
    /\ id \in DOMAIN threads
    /\ threads[id].pc = "rows"
    /\ threads[id].i < Len(threads[id].all_stores)
    /\ LET store == threads[id].all_stores[threads[id].i + 1]
           f     == get_times(store.store_id)
       IN  /\ f.pc = "returned"
           /\ files' = IF f.times = ZeroTimes THEN files
                       ELSE [files EXCEPT ![id].rows = Append(@, Row(store.store_id, f.times))]
           /\ threads' = [threads EXCEPT ![id].i = @ + 1]
    /\ UNCHANGED <<dbVars, reports, requests, response, returned, ingests, gt>>

\* lines 271-283: one iteration of the loop over all_stores
GenRow(id) ==
    /\ id \in DOMAIN threads
    /\ threads[id].pc = "rows"
    /\ threads[id].i < Len(threads[id].all_stores)
    /\ LET store == threads[id].all_stores[threads[id].i + 1]
           f     == get_times(store.store_id)
       IN  /\ f.pc = "returned"
           /\ files' = [files EXCEPT ![id].rows = Append(@, Row(store.store_id, f.times))]
           /\ threads' = [threads EXCEPT ![id].i = @ + 1]
    /\ UNCHANGED <<dbVars, reports, requests, response, returned, ingests, gt>>

\* line 272 raises: the with block closes the file and the thread dies
GenRaise(id) ==
    /\ id \in DOMAIN threads
    /\ threads[id].pc = "rows"
    /\ threads[id].i < Len(threads[id].all_stores)
    /\ get_times(threads[id].all_stores[threads[id].i + 1].store_id).pc = "raised"
    /\ files' = [files EXCEPT ![id].open = FALSE]
    /\ threads' = [threads EXCEPT ![id].pc = "crashed"]
    /\ UNCHANGED <<dbVars, reports, requests, response, returned, ingests, gt>>

\* the loop of line 271 is exhausted and the with block of line 257 closes the file
GenClose(id) ==
    /\ id \in DOMAIN threads
    /\ threads[id].pc = "rows"
    /\ threads[id].i = Len(threads[id].all_stores)
    /\ files' = [files EXCEPT ![id].open = FALSE]
    /\ threads' = [threads EXCEPT ![id].pc = "closed"]
    /\ UNCHANGED <<dbVars, reports, requests, response, returned, ingests, gt>>

\* (time.time() - st) / 60: the minutes elapsed between lines 252 and 285,
\* a value of the wall clock that nothing else reads
Elapsed == "minutes"

\* lines 285-290: the Report row is set to Completed with the time taken.
\* Were the row missing, report would be None and line 288 would raise.
GenCommit(id) ==
    /\ id \in DOMAIN threads
    /\ threads[id].pc = "closed"
    /\ IF id \in DOMAIN reports
       THEN /\ reports' = [reports EXCEPT ![id] =
                              [status |-> "Completed", time_taken |-> Elapsed]]
            /\ threads' = [threads EXCEPT ![id].pc = "done"]
       ELSE /\ threads' = [threads EXCEPT ![id].pc = "crashed"]
            /\ UNCHANGED reports
    /\ UNCHANGED <<dbVars, files, requests, response, returned, ingests, gt>>

\* get_report, line 358: the Report row is read (None when there is none).
\* fresh: the last response sent before this request was the one in which
\* trigger_report returned this report_id.
GetQuery(c, id) ==
    /\ requests[c].op = "idle"
    /\ requests' = [requests EXCEPT ![c] =
          [op |-> "get", report_id |-> id,
           report |-> IF id \in DOMAIN reports THEN reports[id].status ELSE None,
           fresh |-> response.kind = "report_id" /\ response.report_id = id]]
    /\ UNCHANGED <<dbVars, reports, files, threads, response, returned, ingests, gt>>

\* get_report, lines 360-363 on the row read at line 358: report is None and
\* report.status raises AttributeError (a server error); or the status is
\* "Running"; or the file is sent as it is on disk
GetResponseNoStatusCheck(c) ==
    LET id == requests[c].report_id
        base == [op |-> "get", kind |-> "error", error |-> None,
                 report_id |-> id, rows |-> <<>>]
    IN  IF requests[c].report = None
        THEN [base EXCEPT !.error = "AttributeError"]
        ELSE IF id \in DOMAIN files
        THEN [base EXCEPT !.kind = "file", !.rows = files[id].rows]
        ELSE [base EXCEPT !.kind = "Running"]

GetResponse(c) ==
    LET id == requests[c].report_id
        base == [op |-> "get", kind |-> "error", error |-> None,
                 report_id |-> id, rows |-> <<>>]
    IN  IF requests[c].report = None
        THEN [base EXCEPT !.error = "AttributeError"]
        ELSE IF requests[c].report = "Running"
        THEN [base EXCEPT !.kind = "Running"]
        ELSE IF id \in DOMAIN files
        THEN [base EXCEPT !.kind = "file", !.rows = files[id].rows]
        ELSE [base EXCEPT !.error = "FileNotFoundError"]

GetRespond(c) ==
    /\ requests[c].op = "get"
    /\ response' = GetResponse(c)
    /\ requests' = [requests EXCEPT ![c] = Idle]
    /\ UNCHANGED <<dbVars, reports, files, threads, returned, ingests, gt>>

Init ==
    /\ timezones = <<>>
    /\ store_hours = <<>>
    /\ store_status = <<>>
    /\ reports = << >>
    /\ files = << >>
    /\ threads = << >>
    /\ requests = [c \in Clients |-> Idle]
    /\ response = NoResponse
    /\ returned = {}
    /\ ingests = 0
    /\ gt = NoFrame

Next ==
    \/ \E data \in SampleData : AddData(data)
    \/ \E c \in Clients, id \in ReportIds : TriggerStart(c, id)
    \/ \E c \in Clients : TriggerReturn(c)
    \/ \E id \in ReportIds : GenBegin(id)
    \/ \E id \in ReportIds : GenRow(id)
    \/ \E id \in ReportIds : GenRaise(id)
    \/ \E id \in ReportIds : GenClose(id)
    \/ \E id \in ReportIds : GenCommit(id)
    \/ \E c \in Clients, id \in ReportIds : GetQuery(c, id)
    \/ \E c \in Clients : GetRespond(c)

Spec == Init /\ [][Next]_vars

-----------------------------------------------------------------------------
(* Properties of the report job *)

\* rows is the whole artifact of the snapshot all_stores: the header, then
\* one row per store of the snapshot, in the snapshot's order
WholeArtifact(rows, all_stores) ==
    /\ Len(rows) = 1 + Len(all_stores)
    /\ rows[1] = Header
    /\ \A k \in 1..Len(all_stores) : rows[k + 1][1] = all_stores[k].store_id

\* client c's get_report request is answered in this step
GetAnswered(c) == requests[c].op = "get" /\ requests'[c].op = "idle"

\* client c's get_report(id) request reads the registry in this step
GetIssued(c, id) ==
    requests[c].op = "idle" /\ requests'[c].op = "get" /\ requests'[c].report_id = id

\* C1: whenever get_report answers with the artifact and not with the
\* Running status, the artifact sent holds the header and one row for every
\* store of the job's snapshot.
C1_NoPartialArtifact ==
    response.kind = "file" =>
        /\ response.report_id \in DOMAIN threads
        /\ WholeArtifact(response.rows, threads[response.report_id].all_stores)

\* C1 witness: an artifact with two store rows has been served while the
\* thread of the other report is in the middle of writing its file.
C1_Witness ==
    /\ response.kind = "file"
    /\ Len(response.rows) = 3
    /\ \E id \in DOMAIN threads :
          /\ id # response.report_id
          /\ threads[id].pc = "rows"
          /\ threads[id].i = 1

\* C2: a registry entry never disappears; it appears only in state Running
\* and only in a trigger_report request; it changes only once, from Running
\* to Completed, in the commit of that report's own thread; once Completed
\* it never changes again.
C2_RegistryLifecycle ==
    [][\A id \in ReportIds :
         /\ id \in DOMAIN reports => id \in DOMAIN reports'
         /\ (id \notin DOMAIN reports /\ id \in DOMAIN reports') =>
               /\ reports'[id].status = "Running"
               /\ \E c \in Clients :
                     /\ requests[c].op = "idle"
                     /\ requests'[c].op = "trigger"
                     /\ requests'[c].report_id = id
         /\ (id \in DOMAIN reports /\ reports'[id] # reports[id]) =>
               /\ reports[id].status = "Running"
               /\ reports'[id].status = "Completed"
               /\ threads[id].pc = "closed"
               /\ threads'[id].pc = "done"]_vars

\* C2 witness: trigger_report drew the id of a Completed report again, was
\* refused, and the entry is still Completed.
C2_Witness ==
    /\ response.op = "trigger"
    /\ response.error = "IntegrityError"
    /\ reports[response.report_id].status = "Completed"
    /\ threads[response.report_id].pc = "done"

\* C3: a get_report(X) that reads the registry once the thread of X has
\* finished reads Completed, and it is answered with an artifact whose data
\* rows are exactly one per store of the snapshot taken when the job began.
C3_RowsMatchSnapshot ==
    [][\A c \in Clients :
         /\ \A id \in DOMAIN threads :
               (GetIssued(c, id) /\ threads[id].pc = "done")
               => requests'[c].report = "Completed"
         /\ (GetAnswered(c) /\ requests[c].report = "Completed") =>
               /\ response'.kind = "file"
               /\ response'.report_id = requests[c].report_id
               /\ WholeArtifact(response'.rows, threads[requests[c].report_id].all_stores)
               /\ Len(response'.rows) - 1 = Len(threads[requests[c].report_id].all_stores)]_vars

\* C3 witness: the artifact of a finished report has been served, and its
\* number of store rows is no longer the number of stores in the Timezone
\* table (stores were added after the snapshot).
C3_Witness ==
    /\ response.kind = "file"
    /\ threads[response.report_id].pc = "done"
    /\ Len(response.rows) - 1 = Len(threads[response.report_id].all_stores)
    /\ Len(response.rows) - 1 # Len(timezones)

\* C4 as stated: a get_report(X) issued right after trigger_report returned
\* X is answered with the Running status.
C4_FreshGetIsRunning ==
    [][\A c \in Clients :
         (GetAnswered(c) /\ requests[c].fresh) => response'.kind = "Running"]_vars

\* C4 amended: trigger_report returns X whatever the thread has done so far;
\* a get_report(X) issued right after that finds the registry entry: it reads
\* Running unless the thread of X has already committed, and is answered
\* with the Running status in the first case and with the artifact in the
\* second, never with an error.
C4_FreshGetRunningOrArtifact ==
    [][\A c \in Clients :
         /\ \A id \in ReportIds :
               (GetIssued(c, id) /\ requests'[c].fresh) =>
                  /\ id \in DOMAIN threads
                  /\ requests'[c].report =
                        IF threads[id].pc = "done" THEN "Completed" ELSE "Running"
         /\ (GetAnswered(c) /\ requests[c].fresh) =>
               /\ requests[c].report = "Running" => response'.kind = "Running"
               /\ requests[c].report # "Running" => response'.kind = "file"]_vars

\* C4 witness: a get_report issued right after trigger_report returned has
\* read Running, and the thread of that report has not run a single step.
C4_Witness ==
    \E c \in Clients :
       /\ requests[c].op = "get"
       /\ requests[c].fresh
       /\ requests[c].report = "Running"
       /\ requests[c].report_id \in returned
       /\ threads[requests[c].report_id].pc = "begin"

\* C5: get_report for an identifier that trigger_report never returned is
\* answered with a NotFound outcome and changes neither the registry nor any
\* artifact.
C5_UnknownIdNotFound ==
    [][\A c \in Clients :
         (GetAnswered(c) /\ requests[c].report_id \notin returned) =>
            /\ response'.kind = "NotFound"
            /\ reports' = reports
            /\ files' = files]_vars

-----------------------------------------------------------------------------
(* Properties of the aggregator scan *)

Hourly(f) == f.times.up_hourly + f.times.down_hourly
Daily(f)  == f.times.up_daily + f.times.down_daily
Weekly(f) == f.times.up_weekly + f.times.down_weekly

\* the poll the coming iteration looks at, in the store's local time
CurrentLocal == astimezone(gt.store_status[gt.i].timestamp, gt.local_tz)

\* the business-hours rows of the store for weekday d, as stored
HoursRowsOn(d) ==
    { k \in 1..Len(store_hours) :
        store_hours[k].store_id = Store /\ store_hours[k].day_of_week = d }

\* the iteration stops the scan at line 210 instead of examining its poll
StopsScan == gt.did_hit_last_hour /\ gt'.did_hit_last_day /\ gt'.did_hit_last_week

\* C6: one observation adds at most one hour to up_daily + down_daily and at
\* most one hour to up_weekly + down_weekly, however many business intervals
\* of its weekday contain its time of day.
C6_CountedOncePerWindow ==
    [][gt.pc = "loop" =>
         /\ Daily(gt') - Daily(gt) <= 1
         /\ Weekly(gt') - Weekly(gt) <= 1]_vars

\* C7: up_hourly + down_hourly never exceeds 60 minutes, during the scan and
\* in its result.
C7_HourlyAtMost60 == Hourly(gt) <= 60

\* C7 witness: the scan has returned with a full hourly window although one
\* of the observations was matched by two overlapping intervals.
C7_Witness ==
    /\ gt.pc = "returned"
    /\ Hourly(gt) = 60
    /\ Len(gt.store_status) = 1
    /\ Daily(gt) = 2

\* C8: with no business hours configured on the reference weekday and N
\* Active polls that all fall on the reference local date, the result has
\* up_daily = N and down_daily = 0.
C8_AllDayFallback ==
    ( /\ gt.pc = "returned"
      /\ gt.store_status # <<>>
      /\ HoursRowsOn(weekday(gt.last_day_ts)) = {}
      /\ \A k \in 1..Len(gt.store_status) :
            /\ gt.store_status[k].status = "active"
            /\ astimezone(gt.store_status[k].timestamp, gt.local_tz).day
                 = gt.last_day_ts.day )
    => /\ gt.times.up_daily = Len(gt.store_status)
       /\ gt.times.down_daily = 0

\* time of day t (second, microsecond) against a bound given in seconds
AtBound(dt, b)     == dt.sec = b /\ dt.us = 0
BeforeBound(dt, b) == dt.sec < b
AfterBound(dt, b)  == dt.sec > b \/ (dt.sec = b /\ dt.us > 0)

\* C9: interval matching is inclusive at both ends: an examined observation
\* whose local time of day equals the start_time or the end_time of an
\* interval of its weekday is counted; one strictly before the start_time or
\* strictly after the end_time of every interval changes no counter.
C9_InclusiveBounds ==
    [][(gt.pc = "loop" /\ ~ StopsScan) =>
         LET dt    == CurrentLocal
             hours == get_store_time(Store, weekday(dt))
         IN  /\ (\E k \in 1..Len(hours) :
                    /\ hours[k][1] <= hours[k][2]
                    /\ AtBound(dt, hours[k][1]) \/ AtBound(dt, hours[k][2]))
                => gt'.times # gt.times
             /\ (\A k \in 1..Len(hours) :
                    BeforeBound(dt, hours[k][1]) \/ AfterBound(dt, hours[k][2]))
                => gt'.times = gt.times]_vars

\* C9 witness: a single observation exactly at the end_time of a configured
\* interval of its weekday, which is not also its start_time, was counted.
C9_Witness ==
    /\ gt.pc = "returned"
    /\ Len(gt.store_status) = 1
    /\ LET dt == astimezone(gt.store_status[1].timestamp, gt.local_tz)
       IN  \E k \in HoursRowsOn(weekday(dt)) :
              /\ AtBound(dt, store_hours[k].end_time)
              /\ store_hours[k].start_time < store_hours[k].end_time
              /\ \A j \in HoursRowsOn(weekday(dt)) : j = k
    /\ Daily(gt) = 1

Poll(d, s, st) == [store_id |-> Store, status |-> st, timestamp |-> Ts(d, s, 0)]

\* store in UTC, Monday hours 09:00-17:00, polls Mon 12:00 Active,
\* Mon 11:00 Inactive, Mon 10:00 Active
ScenarioC10 ==
    /\ timezones = <<[store_id |-> Store, timezone |-> "UTC"]>>
    /\ store_hours = <<[store_id |-> Store, day_of_week |-> 0,
                        start_time |-> HMS(9, 0, 0), end_time |-> HMS(17, 0, 0)]>>
    /\ store_status = <<Poll(21, HMS(12, 0, 0), "active"),
                        Poll(21, HMS(11, 0, 0), "inactive"),
                        Poll(21, HMS(10, 0, 0), "active")>>

\* C10: in that scenario the aggregator returns up_hourly = 60,
\* down_hourly = 0, up_daily = 2, down_daily = 1, up_weekly = 2, down_weekly = 1.
C10_Scenario ==
    (ScenarioC10 /\ gt.pc = "returned") =>
        gt.times = [up_hourly |-> 60, down_hourly |-> 0, up_daily |-> 2,
                    down_daily |-> 1, up_weekly |-> 2, down_weekly |-> 1]

\* C10 witness: the scan of the scenario has returned.
C10_Witness == ScenarioC10 /\ gt.pc = "returned" /\ gt.store_id = Store

\* the rows of the Timezone table and of the StoreStatus table for the store
TimezoneRowsOf(store_id) == { k \in 1..Len(timezones) : timezones[k].store_id = store_id }
PollRowsOf(store_id) == { k \in 1..Len(store_status) : store_status[k].store_id = store_id }

\* C11: for a store with no polls get_times returns the six counters at 0,
\* and it does so without a timezone or business-hours lookup: also when the
\* store has no Timezone row or one that names no zone.
C11_NoPollsAllZero ==
    (gt.pc # "idle" /\ PollRowsOf(Store) = {}) =>
        /\ gt.pc = "returned"
        /\ gt.raised = None
        /\ gt.times = ZeroTimes
        /\ gt.local_tz = None

\* C11 witness: get_times has returned for a store without polls and
\* without a Timezone row.
C11_Witness ==
    /\ gt.pc = "returned"
    /\ gt.store_id = Store
    /\ PollRowsOf(Store) = {}
    /\ TimezoneRowsOf(Store) = {}

\* C12: the zone lookup never fails: for a store with polls and no Timezone
\* row get_times does not raise and scans in the default fallback zone.
C12_MissingZoneFallsBack ==
    (gt.pc # "idle" /\ TimezoneRowsOf(Store) = {} /\ PollRowsOf(Store) # {}) =>
        /\ gt.pc # "raised"
        /\ gt.raised = None
        /\ gt.local_tz = "America/Chicago"

\* the poll's time of day in the zone tz lies inside a business interval of
\* the poll's own local weekday
InOwnHours(poll, tz) ==
    LET dt    == astimezone(poll.timestamp, tz)
        hours == get_store_time(Store, weekday(dt))
    IN  \E k \in 1..Len(hours) :
           ~ BeforeBound(dt, hours[k][1]) /\ ~ AfterBound(dt, hours[k][2])

\* the polls the scan is past: all of them once it has returned
Scanned(f) == IF f.pc = "loop" THEN f.i - 1 ELSE Len(f.store_status)

SetMin(S) == CHOOSE x \in S : \A y \in S : x <= y

\* C13: the hourly counters are those of one observation, the newest one
\* that is in-hours on its own local weekday: 60 up if it is Active, 60 down
\* if it is Inactive, both 0 when no observation is in-hours; this holds at
\* every point of the scan, so no older observation changes them.
C13_HourlyFromNewestInHours ==
    gt.pc \in {"loop", "returned"} =>
        LET inHours == { k \in 1..Scanned(gt) :
                           InOwnHours(gt.store_status[k], gt.local_tz) }
        IN  IF inHours = {}
            THEN gt.times.up_hourly = 0 /\ gt.times.down_hourly = 0
            ELSE LET newest == gt.store_status[SetMin(inHours)]
                 IN  /\ gt.times.up_hourly = IF newest.status = "active" THEN 60 ELSE 0
                     /\ gt.times.down_hourly = IF newest.status = "active" THEN 0 ELSE 60

\* C13 witness: the newest poll is out of hours, the second is in-hours and
\* Inactive, the third in-hours and Active; the result has down_hourly = 60.
C13_Witness ==
    /\ gt.pc = "returned"
    /\ Len(gt.store_status) = 3
    /\ ~ InOwnHours(gt.store_status[1], gt.local_tz)
    /\ InOwnHours(gt.store_status[2], gt.local_tz)
    /\ gt.store_status[2].status = "inactive"
    /\ InOwnHours(gt.store_status[3], gt.local_tz)
    /\ gt.store_status[3].status = "active"
    /\ gt.times.down_hourly = 60
    /\ gt.times.up_hourly = 0

\* C14: an observation counted into up_weekly or down_weekly has a local
\* date less than 7 days before the reference local date.
C14_WeeklyWithinSevenDays ==
    [][(gt.pc = "loop" /\ Weekly(gt') > Weekly(gt)) =>
          gt.last_day_ts.day - CurrentLocal.day < 7]_vars

\* C15: the windows are nested: a non-zero up_hourly comes with up_daily >= 1
\* and up_weekly >= 1, a non-zero down_hourly with down_daily >= 1 and
\* down_weekly >= 1.
C15_WindowsNested ==
    /\ gt.times.up_hourly > 0 => (gt.times.up_daily >= 1 /\ gt.times.up_weekly >= 1)
    /\ gt.times.down_hourly > 0 => (gt.times.down_daily >= 1 /\ gt.times.down_weekly >= 1)

AllClosed(f) == f.did_hit_last_hour /\ f.did_hit_last_day /\ f.did_hit_last_week

\* C17: the three flags are false when the scan starts and never go back to
\* false; the iteration whose boundary checks leave all three true stops the
\* scan without changing a counter, and no other iteration stops it before
\* the last poll.
C17_FlagsMonotoneAndStop ==
    [][/\ (gt.pc = "idle" /\ gt'.pc = "loop") =>
             /\ ~ gt'.did_hit_last_hour
             /\ ~ gt'.did_hit_last_day
             /\ ~ gt'.did_hit_last_week
       /\ gt.pc = "loop" =>
             /\ gt.did_hit_last_hour => gt'.did_hit_last_hour
             /\ gt.did_hit_last_day => gt'.did_hit_last_day
             /\ gt.did_hit_last_week => gt'.did_hit_last_week
             /\ StopsScan => (gt'.pc = "returned" /\ gt'.times = gt.times /\ gt'.i = gt.i)
             /\ (~ StopsScan /\ gt.i < Len(gt.store_status)) =>
                   (gt'.pc = "loop" /\ gt'.i = gt.i + 1)
             /\ gt'.pc = "loop" => ~ AllClosed(gt)]_vars

\* C17 witness: the scan stopped with the three flags true at a poll that is
\* not the last one, after counting one hour into every window.
C17_Witness ==
    /\ gt.pc = "returned"
    /\ AllClosed(gt)
    /\ gt.i < Len(gt.store_status)
    /\ Hourly(gt) = 60
    /\ Daily(gt) >= 1

\* C18: an observation whose local time of day is outside every business
\* interval of its own local weekday changes none of the six counters and
\* leaves hourClosed as it was.
C18_OutOfHoursChangesNothing ==
    [][(gt.pc = "loop" /\ ~ InOwnHours(gt.store_status[gt.i], gt.local_tz)) =>
          /\ gt'.times = gt.times
          /\ gt'.did_hit_last_hour = gt.did_hit_last_hour]_vars

\* C18 witness: two polls, both out of hours on their own weekday, the older
\* one on an earlier date: the scan returned zero counters with the hour
\* window open and the day window closed.
C18_Witness ==
    /\ gt.pc = "returned"
    /\ Len(gt.store_status) = 2
    /\ ~ InOwnHours(gt.store_status[1], gt.local_tz)
    /\ ~ InOwnHours(gt.store_status[2], gt.local_tz)
    /\ gt.times = ZeroTimes
    /\ ~ gt.did_hit_last_hour
    /\ gt.did_hit_last_day

\* C20: at every point of the scan weekClosed implies dayClosed, and
\* up_daily <= up_weekly and down_daily <= down_weekly.
C20_DailyWithinWeekly ==
    /\ gt.did_hit_last_week => gt.did_hit_last_day
    /\ gt.times.up_daily <= gt.times.up_weekly
    /\ gt.times.down_daily <= gt.times.down_weekly

\* C20 witness: the scan returned with the day window closed, the week
\* window still open, and more hours in the week than in the day.
C20_Witness ==
    /\ gt.pc = "returned"
    /\ gt.did_hit_last_day
    /\ ~ gt.did_hit_last_week
    /\ gt.times.up_daily >= 1
    /\ gt.times.up_daily < gt.times.up_weekly

\* the thread of report id takes a step
ThreadStep(id) == id \in DOMAIN threads /\ threads'[id] # threads[id]

EntryOf(f, id) == IF id \in DOMAIN f THEN f[id] ELSE None

\* C19: a step of the thread of report X changes at most the registry entry,
\* the file and the thread state of X: the entry, file and thread of every
\* other report, the Timezone, StoreHours and StoreStatus tables stay as
\* they are.
C19_ThreadsDoNotInterfere ==
    [][\A x \in ReportIds :
         ThreadStep(x) =>
            /\ timezones' = timezones
            /\ store_hours' = store_hours
            /\ store_status' = store_status
            /\ \A y \in ReportIds \ {x} :
                  /\ EntryOf(reports', y) = EntryOf(reports, y)
                  /\ EntryOf(files', y) = EntryOf(files, y)
                  /\ EntryOf(threads', y) = EntryOf(threads, y)]_vars

\* C19 witness: two threads are both in the middle of writing their files,
\* each with one store row written.
C19_Witness ==
    /\ DOMAIN threads = ReportIds
    /\ \A x \in ReportIds :
          /\ threads[x].pc = "rows"
          /\ threads[x].i = 1
          /\ Len(files[x].rows) = 2

-----------------------------------------------------------------------------
(* Completion of the report job *)

\* the steps of the thread of report id
Thread(id) ==
    GenBegin(id) \/ GenRow(id) \/ GenRaise(id) \/ GenClose(id) \/ GenCommit(id)

IsCompleted(id) ==
    /\ id \in DOMAIN reports
    /\ reports[id].status = "Completed"
    /\ reports[id].time_taken # None

\* C16: every report id that trigger_report has returned either has its
\* registry entry Completed with a time taken, or its thread still has a step
\* to take. Only that thread writes the entry, so a returned id with a dead
\* thread and an entry that is not Completed never becomes Completed, however
\* the threads are scheduled.
C16_ReturnedJobCanComplete ==
    \A id \in returned : IsCompleted(id) \/ ENABLED Thread(id)

====
